---- MODULE Spec2Model ----
(***************************************************************************)
(* A model of BacktestExecClient (inv_trader/backtest/execution.pyx): the  *)
(* simulated execution client of the backtest engine.  Prices are integer  *)
(* numbers of price units, times are integer numbers of time steps.        *)
(***************************************************************************)
EXTENDS Integers, Sequences, FiniteSets, TLC

VARIABLES
    iteration,                  \* self.iteration
    day_number,                 \* self.day_number
    account,                    \* self.account (snapshot fields)
    account_cash_start_day,     \* self.account_cash_start_day
    account_cash_activity_day,  \* self.account_cash_activity_day
    slippage_index,             \* self.slippage_index
    working_orders,             \* self.working_orders (dict, insertion ordered)
    positions_count,            \* self.positions_count
    positions,                  \* self.positions
    completed_positions,        \* self.completed_positions
    order_strategy_index,       \* ownership registered by _register_order
    events,                     \* events handed to _on_event by the latest call
    call,                       \* the latest call and its arguments
    clock,                      \* self._clock: the time of the injected clock
    wind,                       \* the locals of set_initial_iteration while it runs
    last_event,                 \* observer: kind of the last order event per order id
    had_working,                \* observer: order ids that had an OrderWorking event
    days_seen,                  \* observer: calendar days of the times given to iterate
    order_book,                 \* observer: the Order object of each order id submitted
    admitted_at                 \* observer: the iteration at which each order last became working

vars == << iteration, day_number, account, account_cash_start_day,
           account_cash_activity_day, slippage_index, working_orders,
           positions_count, positions, completed_positions,
           order_strategy_index, events, call, clock, wind, last_event,
           had_working, days_seen, order_book, admitted_at >>

(***************************************************************************)
(* Bounds of the model.                                                    *)
(***************************************************************************)
NumBars == 2
MaxPrice == 3
MaxTime == 1
MaxSlippageTicks == 1
MaxPositions == 1
MaxDayTime == 31
MaxToTime == 4
MaxTimeStep == 2

(***************************************************************************)
(* Values and construction inputs.                                         *)
(***************************************************************************)
None == -1

starting_capital == 1000000

money_zero == 0

money(amount) == amount

Symbols == {"AUDUSD"}

StrategyIds == {"S1", "S2"}

\* The strategy that creates the orders.
Owner == "S1"

OrderIds == {1}

Prices == 1 .. MaxPrice

Times == 0 .. MaxTime

OrderSide == {"BUY", "SELL"}

OrderType == {"MARKET", "LIMIT", "STOP_MARKET", "STOP_LIMIT", "MIT"}

\* The integer behind each member of the OrderType enumeration.
OrderTypeValue ==
    [ MARKET |-> 0, LIMIT |-> 1, STOP_MARKET |-> 2, STOP_LIMIT |-> 3, MIT |-> 4 ]

\* Truth value of an enumeration member used as a condition.
Truthy(type) == OrderTypeValue[type] # 0

instruments == [ symbol \in Symbols |-> [ symbol |-> symbol, tick_size |-> 1 ] ]

\* Times count days from the first of January of a year of 365 days.
MonthDays == << 31, 28, 31, 30, 31, 30, 31, 31, 30, 31, 30, 31 >>

RECURSIVE DayOfMonth(_, _)
DayOfMonth(day_of_year, month) ==
    IF day_of_year < MonthDays[month]
    THEN day_of_year + 1
    ELSE DayOfMonth(day_of_year - MonthDays[month], month + 1)

\* time.day: the day of the month of a time.
Day(time) == DayOfMonth(time % 365, 1)

\* Minute bars <<open, high, low, close>>; bar i is the bar of iteration i.
AskBar(i) ==
    CASE i % 3 = 0 -> << 2, 2, 2, 2 >>
      [] i % 3 = 1 -> << 2, 3, 2, 3 >>
      [] OTHER     -> << 3, 3, 2, 2 >>

BidBar(i) ==
    CASE i % 3 = 0 -> << 2, 2, 2, 2 >>
      [] i % 3 = 1 -> << 2, 2, 1, 2 >>
      [] OTHER     -> << 1, 1, 1, 1 >>

\* The time of each bar: bar i is stamped with time i.
data_minute_index == [ i \in 1 .. NumBars |-> i - 1 ]

data_bars_ask == [ symbol \in Symbols |-> [ i \in 1 .. NumBars |-> AskBar(i - 1) ] ]

data_bars_bid == [ symbol \in Symbols |-> [ i \in 1 .. NumBars |-> BidBar(i - 1) ] ]

\* An order is good till cancelled or expires one time step after the start.
ExpireTimes == {None} \cup { time \in Times : time = 1 }

\* The Order objects a strategy can hand to the client.
Orders ==
    { [ id |-> id, symbol |-> symbol, side |-> side, type |-> "MARKET",
        quantity |-> 1, price |-> None, expire_time |-> None ] :
        id \in OrderIds, symbol \in Symbols, side \in OrderSide }
    \cup
    { [ id |-> id, symbol |-> symbol, side |-> side, type |-> type,
        quantity |-> 1, price |-> price, expire_time |-> expire_time ] :
        id \in OrderIds, symbol \in Symbols, side \in OrderSide,
        type \in OrderType \ {"MARKET"}, price \in Prices,
        expire_time \in ExpireTimes }

(***************************************************************************)
(* Dictionaries.                                                           *)
(***************************************************************************)
EmptyDict == << >>

DictSet(dict, key, value) ==
    [ k \in DOMAIN dict \cup {key} |-> IF k = key THEN value ELSE dict[k] ]

DictDel(dict, key) == [ k \in DOMAIN dict \ {key} |-> dict[k] ]

\* working_orders is an insertion ordered dict keyed by order id, kept as
\* the sequence of its values.
WorkingIds(wo) == { wo[i].id : i \in 1 .. Len(wo) }

WorkingDel(wo, order_id) == SelectSeq(wo, LAMBDA o : o.id # order_id)

WorkingGet(wo, order_id) ==
    wo[CHOOSE i \in 1 .. Len(wo) : wo[i].id = order_id]

(***************************************************************************)
(* Bar cursor.                                                             *)
(***************************************************************************)
_get_lowest_bid(symbol) == data_bars_bid[symbol][iteration + 1][3]

_get_closing_bid(symbol) == data_bars_bid[symbol][iteration + 1][4]

\* _get_highest_ask reading the bar after the cursor (the first bar after
\* the last).
_get_highest_ask_Ahead(symbol) ==
    data_bars_ask[symbol][((iteration + 1) % NumBars) + 1][2]

_get_highest_ask(symbol) == data_bars_ask[symbol][iteration + 1][2]

_get_closing_ask(symbol) == data_bars_ask[symbol][iteration + 1][4]

_set_slippage_index(slippage_ticks) ==
    [ symbol \in Symbols |-> instruments[symbol].tick_size * slippage_ticks ]

(***************************************************************************)
(* Entities updated by events (the event sink of the client).              *)
(***************************************************************************)
\* Account.apply: the snapshot fields take the values of the event.
AccountApply(acc, event) ==
    [ acc EXCEPT !.cash_balance = event.cash_balance,
                 !.cash_start_day = event.cash_start_day,
                 !.cash_activity_day = event.cash_activity_day ]

\* Order.apply: a modification gives the order its new price.
OrderApply(order, event) ==
    IF event.kind = "OrderModified"
    THEN [ order EXCEPT !.price = event.new_price ]
    ELSE order

\* Position.apply: a fill moves the signed net quantity.
PositionApply(position, event) ==
    [ position EXCEPT !.quantity =
        IF event.side = "BUY" THEN @ + event.quantity ELSE @ - event.quantity ]

\* Position.is_exited
is_exited(position) == position.quantity = 0

\* The mutable part of the client that the helpers below pass along.
Self ==
    [ working_orders |-> working_orders,
      positions_count |-> positions_count,
      positions |-> positions,
      completed_positions |-> completed_positions,
      account |-> account,
      events |-> << >> ]

\* The sink is handed the event, and sees the working orders of that moment.
_on_event(self, event) ==
    LET seen == event @@ [ working_ids |-> WorkingIds(self.working_orders) ]
        delivered == [ self EXCEPT !.events = Append(@, seen) ]
    IN  IF event.kind = "AccountEvent"
        THEN [ delivered EXCEPT !.account = AccountApply(@, event) ]
        ELSE [ delivered EXCEPT !.working_orders =
                 [ i \in 1 .. Len(@) |->
                     IF @[i].id = event.order_id THEN OrderApply(@[i], event)
                     ELSE @[i] ] ]

(***************************************************************************)
(* Event constructors.                                                     *)
(***************************************************************************)
AccountEvent(self, cash_start_day, cash_activity_day) ==
    [ kind |-> "AccountEvent",
      cash_balance |-> self.account.cash_balance,
      cash_start_day |-> cash_start_day,
      cash_activity_day |-> cash_activity_day ]

OrderSubmitted(order) ==
    [ kind |-> "OrderSubmitted", symbol |-> order.symbol, order_id |-> order.id ]

OrderAccepted(order) ==
    [ kind |-> "OrderAccepted", symbol |-> order.symbol, order_id |-> order.id ]

OrderRejected(order) ==
    [ kind |-> "OrderRejected", symbol |-> order.symbol, order_id |-> order.id ]

OrderWorking(order) ==
    [ kind |-> "OrderWorking", symbol |-> order.symbol, order_id |-> order.id,
      broker_id |-> << "B", order.id >>, side |-> order.side,
      type |-> order.type, quantity |-> order.quantity, price |-> order.price,
      expire_time |-> order.expire_time ]

OrderCancelled(order) ==
    [ kind |-> "OrderCancelled", symbol |-> order.symbol, order_id |-> order.id ]

OrderCancelReject(order) ==
    [ kind |-> "OrderCancelReject", symbol |-> order.symbol,
      order_id |-> order.id, reason_code |-> "INVALID PRICE" ]

OrderModified(order, new_price) ==
    [ kind |-> "OrderModified", symbol |-> order.symbol, order_id |-> order.id,
      new_price |-> new_price ]

OrderExpired(order) ==
    [ kind |-> "OrderExpired", symbol |-> order.symbol, order_id |-> order.id,
      expired_time |-> order.expire_time ]

OrderFilled(order, fill_price) ==
    [ kind |-> "OrderFilled", symbol |-> order.symbol, order_id |-> order.id,
      execution_id |-> << "E", order.id >>,
      execution_ticket |-> << "ET", order.id >>,
      side |-> order.side, quantity |-> order.quantity,
      fill_price |-> fill_price ]

(***************************************************************************)
(* Private helpers of the client.                                          *)
(***************************************************************************)
_reject_order(self, order) == _on_event(self, OrderRejected(order))

_reject_modify_order(self, order) == _on_event(self, OrderCancelReject(order))

\* _expire_order handing no event to the sink.
_expire_order_Silent(self, order) == self

_expire_order(self, order) == _on_event(self, OrderExpired(order))

\* _adjust_positions leaving an exited position in the open positions.
_adjust_positions_KeepExited(self, event) ==
    LET symbol == event.symbol
        counted ==
            IF symbol \notin DOMAIN self.positions_count
            THEN DictSet(self.positions_count, symbol, 0)
            ELSE self.positions_count
        opening == symbol \notin DOMAIN self.positions
        count == IF opening THEN DictSet(counted, symbol, counted[symbol] + 1)
                 ELSE counted
        opened ==
            IF opening
            THEN DictSet(self.positions, symbol,
                         [ symbol |-> symbol, id |-> << symbol, count[symbol] >>,
                           quantity |-> 0 ])
            ELSE self.positions
        subject_position == PositionApply(opened[symbol], event)
        applied == DictSet(opened, symbol, subject_position)
    IN  IF is_exited(subject_position)
        THEN [ self EXCEPT
                 !.positions_count = count,
                 !.positions = applied,
                 !.completed_positions =
                     DictSet(@, subject_position.id, subject_position) ]
        ELSE [ self EXCEPT !.positions_count = count, !.positions = applied ]

\* _adjust_positions naming a new position by the count before its increment.
_adjust_positions_StaleId(self, event) ==
    LET symbol == event.symbol
        counted ==
            IF symbol \notin DOMAIN self.positions_count
            THEN DictSet(self.positions_count, symbol, 0)
            ELSE self.positions_count
        opening == symbol \notin DOMAIN self.positions
        count == IF opening THEN DictSet(counted, symbol, counted[symbol] + 1)
                 ELSE counted
        opened ==
            IF opening
            THEN DictSet(self.positions, symbol,
                         [ symbol |-> symbol, id |-> << symbol, counted[symbol] >>,
                           quantity |-> 0 ])
            ELSE self.positions
        subject_position == PositionApply(opened[symbol], event)
        applied == DictSet(opened, symbol, subject_position)
    IN  IF is_exited(subject_position)
        THEN [ self EXCEPT
                 !.positions_count = count,
                 !.positions = DictDel(applied, symbol),
                 !.completed_positions =
                     DictSet(@, subject_position.id, subject_position) ]
        ELSE [ self EXCEPT !.positions_count = count, !.positions = applied ]

\* The AccountEvent built at the end is not handed to _on_event.
_adjust_positions(self, event) ==
    LET symbol == event.symbol
        counted ==
            IF symbol \notin DOMAIN self.positions_count
            THEN DictSet(self.positions_count, symbol, 0)
            ELSE self.positions_count
        opening == symbol \notin DOMAIN self.positions
        count == IF opening THEN DictSet(counted, symbol, counted[symbol] + 1)
                 ELSE counted
        opened ==
            IF opening
            THEN DictSet(self.positions, symbol,
                         [ symbol |-> symbol, id |-> << symbol, count[symbol] >>,
                           quantity |-> 0 ])
            ELSE self.positions
        subject_position == PositionApply(opened[symbol], event)
        applied == DictSet(opened, symbol, subject_position)
    IN  IF is_exited(subject_position)
        THEN [ self EXCEPT
                 !.positions_count = count,
                 !.positions = DictDel(applied, symbol),
                 !.completed_positions =
                     DictSet(@, subject_position.id, subject_position) ]
        ELSE [ self EXCEPT !.positions_count = count, !.positions = applied ]

\* _fill_order debiting the fill price from the account's cash.
_fill_order_Debit(self, order, fill_price) ==
    LET filled == OrderFilled(order, fill_price)
        debited == [ self EXCEPT !.account.cash_balance = @ - fill_price ]
    IN  _adjust_positions(_on_event(debited, filled), filled)

_fill_order(self, order, fill_price) ==
    LET filled == OrderFilled(order, fill_price)
    IN  _adjust_positions(_on_event(self, filled), filled)

\* The ownership recorded for an order.
_register_order(index, order, strategy_id) == DictSet(index, order.id, strategy_id)

(***************************************************************************)
(* Writing the helpers' result back to the state.                          *)
(***************************************************************************)
Commit(result) ==
    \E self \in {result} :
       /\ working_orders' = self.working_orders
       /\ positions_count' = self.positions_count
       /\ positions' = self.positions
       /\ completed_positions' = self.completed_positions
       /\ account' = self.account
       /\ events' = self.events

\* A failed precondition raises before anything is done.
Raise ==
    /\ events' = << >>
    /\ UNCHANGED << iteration, day_number, account, account_cash_start_day,
                    account_cash_activity_day, slippage_index, working_orders,
                    positions_count, positions, completed_positions,
                    order_strategy_index >>

(***************************************************************************)
(* Public operations.                                                      *)
(***************************************************************************)
\* The two arguments are the values of self.account_cash_start_day and
\* self.account_cash_activity_day at the call.
collateral_inquiry_(self, cash_start_day, cash_activity_day) ==
    _on_event(self, AccountEvent(self, cash_start_day, cash_activity_day))

collateral_inquiry ==
    /\ Commit(collateral_inquiry_(Self, account_cash_start_day,
                                  account_cash_activity_day))
    /\ call' = [ op |-> "collateral_inquiry", raised |-> FALSE ]
    /\ UNCHANGED << iteration, day_number, account_cash_start_day,
                    account_cash_activity_day, slippage_index,
                    order_strategy_index >>

\* SubmitCheck with the comparisons made inclusive: a price equal to the
\* close is rejected.
SubmitCheckInclusive(self, order) ==
    IF order.type = "MARKET"
    THEN [ done |-> TRUE,
           self |-> _fill_order(self, order,
                      IF order.side = "BUY"
                      THEN _get_closing_ask(order.symbol) + slippage_index[order.symbol]
                      ELSE _get_closing_bid(order.symbol) - slippage_index[order.symbol]) ]
    ELSE IF \/ order.side = "BUY" /\ order.type # "LIMIT"
               /\ order.price <= _get_closing_ask(order.symbol)
            \/ order.side = "BUY" /\ order.type = "LIMIT"
               /\ order.price >= _get_closing_ask(order.symbol)
            \/ order.side = "SELL" /\ order.type # "LIMIT"
               /\ order.price >= _get_closing_bid(order.symbol)
            \/ order.side = "SELL" /\ order.type = "LIMIT"
               /\ order.price <= _get_closing_bid(order.symbol)
    THEN [ done |-> TRUE, self |-> _reject_order(self, order) ]
    ELSE [ done |-> FALSE, self |-> self ]

\* The admission price check shared by the branches of submit_order.
SubmitCheck(self, order) ==
    IF order.side = "BUY"
    THEN LET closing_ask == _get_closing_ask(order.symbol)
         IN  IF order.type = "MARKET"
             THEN [ done |-> TRUE,
                    self |-> _fill_order(self, order,
                                 closing_ask + slippage_index[order.symbol]) ]
             ELSE IF order.type = "STOP_MARKET" \/ order.type = "STOP_LIMIT"
                     \/ order.type = "MIT"
             THEN IF order.price < closing_ask
                  THEN [ done |-> TRUE, self |-> _reject_order(self, order) ]
                  ELSE [ done |-> FALSE, self |-> self ]
             ELSE IF order.type = "LIMIT"
             THEN IF order.price > closing_ask
                  THEN [ done |-> TRUE, self |-> _reject_order(self, order) ]
                  ELSE [ done |-> FALSE, self |-> self ]
             ELSE [ done |-> FALSE, self |-> self ]
    ELSE IF order.side = "SELL"
    THEN LET closing_bid == _get_closing_bid(order.symbol)
         IN  IF order.type = "MARKET"
             THEN [ done |-> TRUE,
                    self |-> _fill_order(self, order,
                                 closing_bid - slippage_index[order.symbol]) ]
             ELSE IF order.type = "STOP_MARKET" \/ order.type = "STOP_LIMIT"
                     \/ order.type = "MIT"
             THEN IF order.price > closing_bid
                  THEN [ done |-> TRUE, self |-> _reject_order(self, order) ]
                  ELSE [ done |-> FALSE, self |-> self ]
             ELSE IF order.type = "LIMIT"
             THEN IF order.price < closing_bid
                  THEN [ done |-> TRUE, self |-> _reject_order(self, order) ]
                  ELSE [ done |-> FALSE, self |-> self ]
             ELSE [ done |-> FALSE, self |-> self ]
    ELSE [ done |-> FALSE, self |-> self ]

\* submit_order_ without the return after a rejection: the rejected order
\* goes on to become working.
submit_order_FallThrough(self, order) ==
    LET submitted == _on_event(self, OrderSubmitted(order))
        accepted == _on_event(submitted, OrderAccepted(order))
        checked == SubmitCheck(accepted, order)
    IN  IF checked.done /\ order.type = "MARKET"
        THEN checked.self
        ELSE _on_event([ checked.self EXCEPT
                           !.working_orders = Append(@, order) ],
                       OrderWorking(order))

submit_order_(self, order) ==
    LET submitted == _on_event(self, OrderSubmitted(order))
        accepted == _on_event(submitted, OrderAccepted(order))
        checked == SubmitCheck(accepted, order)
    IN  IF checked.done
        THEN checked.self
        ELSE _on_event([ checked.self EXCEPT
                           !.working_orders = Append(@, order) ],
                       OrderWorking(order))

PositionsOpened(symbol) ==
    IF symbol \in DOMAIN positions_count THEN positions_count[symbol] ELSE 0

\* The MARKET orders the strategy sends: one that opens a position while
\* fewer than MaxPositions were opened, or one that reduces the open position.
MarketAllowed(order) ==
    IF order.symbol \in DOMAIN positions
    THEN (order.side = "BUY") = (positions[order.symbol].quantity < 0)
    ELSE PositionsOpened(order.symbol) < MaxPositions

\* submit_order registering the ownership before it checks its precondition.
submit_order_RegisterFirst(order, strategy_id) ==
    /\ iteration < NumBars
    /\ order.type = "MARKET" => MarketAllowed(order)
    /\ call' = [ op |-> "submit_order", order |-> order,
                 raised |-> order.id \in WorkingIds(working_orders) ]
    /\ order_strategy_index' =
           _register_order(order_strategy_index, order, strategy_id)
    /\ IF order.id \in WorkingIds(working_orders)
       THEN /\ events' = << >>
            /\ UNCHANGED << iteration, day_number, account,
                            account_cash_start_day, account_cash_activity_day,
                            slippage_index, working_orders, positions_count,
                            positions, completed_positions >>
       ELSE /\ Commit(submit_order_(Self, order))
            /\ UNCHANGED << iteration, day_number, account_cash_start_day,
                            account_cash_activity_day, slippage_index >>

submit_order(order, strategy_id) ==
    /\ iteration < NumBars
    /\ order.type = "MARKET" => MarketAllowed(order)
    /\ call' = [ op |-> "submit_order", order |-> order,
                 raised |-> order.id \in WorkingIds(working_orders) ]
    /\ IF order.id \in WorkingIds(working_orders)
       THEN Raise
       ELSE /\ order_strategy_index' =
                   _register_order(order_strategy_index, order, strategy_id)
            /\ Commit(submit_order_(Self, order))
            /\ UNCHANGED << iteration, day_number, account_cash_start_day,
                            account_cash_activity_day, slippage_index >>

\* cancel_order_ emptying the working orders instead of deleting one key.
cancel_order_Clear(self, order) ==
    _on_event([ self EXCEPT !.working_orders = << >> ], OrderCancelled(order))

\* cancel_order_ leaving the order in the working orders.
cancel_order_Keep(self, order) == _on_event(self, OrderCancelled(order))

cancel_order_(self, order) ==
    _on_event([ self EXCEPT !.working_orders = WorkingDel(@, order.id) ],
              OrderCancelled(order))

cancel_order(order) ==
    /\ call' = [ op |-> "cancel_order", order_id |-> order.id,
                 raised |-> order.id \notin WorkingIds(working_orders) ]
    /\ IF order.id \notin WorkingIds(working_orders)
       THEN Raise
       ELSE /\ Commit(cancel_order_(Self, order))
            /\ UNCHANGED << iteration, day_number, account_cash_start_day,
                            account_cash_activity_day, slippage_index,
                            order_strategy_index >>

\* modify_order_ checking the new price instead of the order's price.
modify_order_NewPrice(self, order, new_price) ==
    LET modified == _on_event(self, OrderModified(order, new_price))
        stop == order.type = "STOP_MARKET" \/ order.type = "STOP_LIMIT"
                \/ order.type = "MIT"
    IN  IF \/ order.side = "BUY" /\ stop
              /\ new_price < _get_closing_ask(order.symbol)
           \/ order.side = "BUY" /\ order.type = "LIMIT"
              /\ new_price > _get_closing_ask(order.symbol)
           \/ order.side = "SELL" /\ stop
              /\ new_price > _get_closing_bid(order.symbol)
           \/ order.side = "SELL" /\ order.type = "LIMIT"
              /\ new_price < _get_closing_bid(order.symbol)
        THEN _reject_modify_order(self, order)
        ELSE modified

modify_order_(self, order, new_price) ==
    LET modified == _on_event(self, OrderModified(order, new_price))
    IN  IF order.side = "BUY"
        THEN LET current_ask == _get_closing_ask(order.symbol)
             IN  IF order.type = "STOP_MARKET" \/ order.type = "STOP_LIMIT"
                    \/ order.type = "MIT"
                 THEN IF order.price < current_ask
                      THEN _reject_modify_order(self, order)
                      ELSE modified
                 ELSE IF order.type = "LIMIT"
                 THEN IF order.price > current_ask
                      THEN _reject_modify_order(self, order)
                      ELSE modified
                 ELSE modified
        ELSE IF order.side = "SELL"
        THEN LET current_bid == _get_closing_bid(order.symbol)
             IN  IF order.type = "STOP_MARKET" \/ order.type = "STOP_LIMIT"
                    \/ order.type = "MIT"
                 THEN IF order.price > current_bid
                      THEN _reject_modify_order(self, order)
                      ELSE modified
                 ELSE IF order.type = "LIMIT"
                 THEN IF order.price < current_bid
                      THEN _reject_modify_order(self, order)
                      ELSE modified
                 ELSE modified
        ELSE modified

modify_order(order, new_price) ==
    /\ order.id \in WorkingIds(working_orders) => iteration < NumBars
    /\ call' = [ op |-> "modify_order", order_id |-> order.id,
                 new_price |-> new_price,
                 raised |-> order.id \notin WorkingIds(working_orders) ]
    /\ IF order.id \notin WorkingIds(working_orders)
       THEN Raise
       ELSE /\ Commit(modify_order_(Self, order, new_price))
            /\ UNCHANGED << iteration, day_number, account_cash_start_day,
                            account_cash_activity_day, slippage_index,
                            order_strategy_index >>

\* ScanFills with strict comparisons in the stop branch.
ScanFillsStrict(order) ==
    IF order.side = "BUY"
    THEN _get_highest_ask(order.symbol) > order.price
    ELSE IF order.side = "SELL"
    THEN _get_lowest_bid(order.symbol) < order.price
    ELSE FALSE

\* The fill test of the scan.  The stop test is written
\* "type is STOP_MARKET or STOP_LIMIT or MIT": the last two operands are
\* enumeration members taken as conditions.
ScanFills(order) ==
    IF order.side = "BUY"
    THEN LET highest_ask == _get_highest_ask(order.symbol)
         IN  IF order.type = "STOP_MARKET" \/ Truthy("STOP_LIMIT") \/ Truthy("MIT")
             THEN highest_ask >= order.price
             ELSE IF order.type = "LIMIT"
             THEN highest_ask < order.price
             ELSE FALSE
    ELSE IF order.side = "SELL"
    THEN LET lowest_bid == _get_lowest_bid(order.symbol)
         IN  IF order.type = "STOP_MARKET" \/ Truthy("STOP_LIMIT") \/ Truthy("MIT")
             THEN lowest_bid <= order.price
             ELSE IF order.type = "LIMIT"
             THEN lowest_bid > order.price
             ELSE FALSE
    ELSE FALSE

\* ScanFillPrice with the slippage applied in favour of the order.
ScanFillPriceFavourable(order) ==
    IF order.side = "BUY"
    THEN order.price - slippage_index[order.symbol]
    ELSE order.price + slippage_index[order.symbol]

ScanFillPrice(order) ==
    IF order.side = "BUY"
    THEN order.price + slippage_index[order.symbol]
    ELSE order.price - slippage_index[order.symbol]

\* ScanExpires with a strict comparison: expiry one step late.
ScanExpiresLate(order, time) ==
    order.expire_time # None /\ time > order.expire_time

ScanExpires(order, time) ==
    order.expire_time # None /\ time >= order.expire_time

\* Scan expiring an order without deleting it from the working orders.
RECURSIVE ScanKeepsExpired(_, _, _)
ScanKeepsExpired(self, copy, time) ==
    IF copy = << >>
    THEN self
    ELSE LET order == Head(copy)
             removed == [ self EXCEPT !.working_orders = WorkingDel(@, order.id) ]
         IN  IF ScanFills(order)
             THEN ScanKeepsExpired(_fill_order(removed, order, ScanFillPrice(order)),
                                   Tail(copy), time)
             ELSE IF ScanExpires(order, time)
             THEN ScanKeepsExpired(_expire_order(self, order), Tail(copy), time)
             ELSE ScanKeepsExpired(self, Tail(copy), time)

\* Scan going through the copy from its last entry to its first.
RECURSIVE ScanReversed(_, _, _)
ScanReversed(self, copy, time) ==
    IF copy = << >>
    THEN self
    ELSE LET order == copy[Len(copy)]
             rest == SubSeq(copy, 1, Len(copy) - 1)
             removed == [ self EXCEPT !.working_orders = WorkingDel(@, order.id) ]
         IN  IF ScanFills(order)
             THEN ScanReversed(_fill_order(removed, order, ScanFillPrice(order)),
                               rest, time)
             ELSE IF ScanExpires(order, time)
             THEN ScanReversed(_expire_order(removed, order), rest, time)
             ELSE ScanReversed(self, rest, time)

\* The loop over the copy of working_orders.
RECURSIVE Scan(_, _, _)
Scan(self, copy, time) ==
    IF copy = << >>
    THEN self
    ELSE LET order == Head(copy)
             removed == [ self EXCEPT !.working_orders = WorkingDel(@, order.id) ]
         IN  IF ScanFills(order)
             THEN Scan(_fill_order(removed, order, ScanFillPrice(order)),
                       Tail(copy), time)
             ELSE IF ScanExpires(order, time)
             THEN Scan(_expire_order(removed, order), Tail(copy), time)
             ELSE Scan(self, Tail(copy), time)

iterate(time) ==
    /\ iteration < NumBars
    /\ call' = [ op |-> "iterate", time |-> time, copy |-> working_orders,
                 raised |-> FALSE ]
    /\ IF day_number # Day(time)
       THEN /\ day_number' = Day(time)
            /\ account_cash_start_day' = account.cash_balance
            /\ account_cash_activity_day' = money_zero
            /\ LET rolled ==
                     collateral_inquiry_(Self, account.cash_balance, money_zero)
               IN  Commit(Scan(rolled, rolled.working_orders, time))
       ELSE /\ UNCHANGED << day_number, account_cash_start_day,
                            account_cash_activity_day >>
            /\ Commit(Scan(Self, working_orders, time))
    /\ iteration' = iteration + 1
    /\ UNCHANGED << slippage_index, order_strategy_index >>

(***************************************************************************)
(* set_initial_iteration, one action per step of its loop.                 *)
(***************************************************************************)
\* The call: the locals are set up.
set_initial_iteration(to_time, time_step) ==
    /\ ~wind.running
    /\ wind' = [ running |-> TRUE, current |-> data_minute_index[1],
                 next_index |-> 0, to_time |-> to_time,
                 time_step |-> time_step ]
    /\ call' = [ op |-> "set_initial_iteration", to_time |-> to_time,
                 time_step |-> time_step, raised |-> FALSE ]
    /\ events' = << >>
    /\ UNCHANGED << iteration, day_number, account, account_cash_start_day,
                    account_cash_activity_day, slippage_index, working_orders,
                    positions_count, positions, completed_positions,
                    order_strategy_index, clock >>

\* What data_minute_index[next_index] == current can yield: the index is
\* read without a bounds check, so past its end the comparison may go
\* either way.
IndexMatches(next_index, current) ==
    IF next_index < Len(data_minute_index)
    THEN { data_minute_index[next_index + 1] = current }
    ELSE BOOLEAN

\* One pass of the loop "while current < to_time".
set_initial_iteration_pass ==
    /\ wind.running
    /\ wind.current < wind.to_time
    /\ \E matches \in IndexMatches(wind.next_index, wind.current) :
          /\ wind' = [ wind EXCEPT
                         !.next_index = IF matches THEN @ + 1 ELSE @,
                         !.current = @ + wind.time_step ]
          /\ iteration' = IF matches THEN iteration + 1 ELSE iteration
    /\ UNCHANGED << day_number, account, account_cash_start_day,
                    account_cash_activity_day, slippage_index, working_orders,
                    positions_count, positions, completed_positions,
                    order_strategy_index, events, call, clock >>

\* The loop is left and the clock is set.
set_initial_iteration_return ==
    /\ wind.running
    /\ ~(wind.current < wind.to_time)
    /\ clock' = wind.current
    /\ wind' = [ running |-> FALSE ]
    /\ UNCHANGED << iteration, day_number, account, account_cash_start_day,
                    account_cash_activity_day, slippage_index, working_orders,
                    positions_count, positions, completed_positions,
                    order_strategy_index, events, call >>

(***************************************************************************)
(* The state after construction and the next-state relation.               *)
(***************************************************************************)
Init ==
    /\ iteration = 0
    /\ day_number = 0
    /\ account_cash_start_day = money(starting_capital)
    /\ account_cash_activity_day = money_zero
    /\ \E slippage_ticks \in 0 .. MaxSlippageTicks :
          slippage_index = _set_slippage_index(slippage_ticks)
    /\ working_orders = << >>
    /\ positions_count = EmptyDict
    /\ positions = EmptyDict
    /\ completed_positions = EmptyDict
    /\ order_strategy_index = EmptyDict
    /\ account = [ cash_balance |-> money(starting_capital),
                   cash_start_day |-> money(starting_capital),
                   cash_activity_day |-> money_zero ]
    /\ events = << >>
    /\ call = [ op |-> "__init__", raised |-> FALSE ]
    /\ clock = 0
    /\ wind = [ running |-> FALSE ]
    /\ last_event = EmptyDict
    /\ had_working = {}
    /\ days_seen = {}
    /\ order_book = EmptyDict
    /\ admitted_at = EmptyDict

\* An order id belongs to one Order object, created by the owning strategy:
\* an order that is working is submitted again, by any strategy, as the
\* object that is working.
Fresh(universe) ==
    { order \in universe : order.id \notin WorkingIds(working_orders) }

Working == { working_orders[i] : i \in 1 .. Len(working_orders) }

\* An order that is not working, to call cancel_order or modify_order with.
Stranger(order_id) ==
    [ id |-> order_id, symbol |-> CHOOSE symbol \in Symbols : TRUE,
      side |-> "BUY", type |-> "MARKET", quantity |-> 1, price |-> None,
      expire_time |-> None ]

Held(ids) ==
    Working \cup { Stranger(order_id) : order_id \in ids \ WorkingIds(working_orders) }

\* The clock is not moved and nothing is observed.
Unobserved ==
    UNCHANGED << clock, wind, last_event, had_working, days_seen, order_book,
                 admitted_at >>

\* A strategy that has one order at a time, of any kind.
Next ==
    \/ \E order \in Fresh(Orders) : submit_order(order, Owner) /\ Unobserved
    \/ \E order \in Working, strategy_id \in StrategyIds :
          submit_order(order, strategy_id) /\ Unobserved
    \/ \E order \in Held(OrderIds) : cancel_order(order) /\ Unobserved
    \/ \E order \in Held(OrderIds), new_price \in Prices :
          modify_order(order, new_price) /\ Unobserved
    \/ \E time \in Times : iterate(time) /\ Unobserved
    \/ collateral_inquiry /\ Unobserved

Spec == Init /\ [][Next]_vars

\* A strategy that has up to two orders at a time and only buys, with
\* market and stop orders.
PairIds == {1, 2}

PairOrders ==
    { [ order EXCEPT !.id = id ] :
        order \in { o \in Orders : /\ o.type \in {"MARKET", "STOP_MARKET"}
                                    /\ o.side = "BUY" },
        id \in PairIds }

NextPair ==
    \/ \E order \in Fresh(PairOrders) : submit_order(order, Owner) /\ Unobserved
    \/ \E order \in Working, strategy_id \in StrategyIds :
          submit_order(order, strategy_id) /\ Unobserved
    \/ \E order \in Held(PairIds) : cancel_order(order) /\ Unobserved
    \/ \E order \in Held(PairIds), new_price \in Prices :
          modify_order(order, new_price) /\ Unobserved
    \/ \E time \in Times : iterate(time) /\ Unobserved
    \/ collateral_inquiry /\ Unobserved

SpecPair == Init /\ [][NextPair]_vars

(***************************************************************************)
(* The event stream observed order by order.                               *)
(***************************************************************************)
\* The kind of the last order event of each order id after more events.
RECURSIVE LastAfter(_, _)
LastAfter(last, evs) ==
    IF evs = << >>
    THEN last
    ELSE LastAfter(IF Head(evs).kind = "AccountEvent"
                   THEN last
                   ELSE DictSet(last, Head(evs).order_id, Head(evs).kind),
                   Tail(evs))

\* The Order objects after they applied more events.
RECURSIVE BookAfter(_, _)
BookAfter(book, evs) ==
    IF evs = << >>
    THEN book
    ELSE BookAfter(IF /\ Head(evs).kind # "AccountEvent"
                      /\ Head(evs).order_id \in DOMAIN book
                   THEN DictSet(book, Head(evs).order_id,
                                OrderApply(book[Head(evs).order_id], Head(evs)))
                   ELSE book,
                   Tail(evs))

Observe ==
    /\ last_event' = LastAfter(last_event, events')
    /\ order_book' =
           BookAfter(IF call'.op = "submit_order" /\ ~call'.raised
                     THEN DictSet(order_book, call'.order.id, call'.order)
                     ELSE order_book,
                     events')
    /\ had_working' =
           had_working \cup { events'[j].order_id :
                                j \in { k \in 1 .. Len(events') :
                                          events'[k].kind = "OrderWorking" } }
    /\ UNCHANGED << clock, wind, days_seen, admitted_at >>

\* The orders of the observed strategy: every kind of order, and a stop
\* that no bar touches.
LifeOrders ==
    Orders
    \cup
    { [ id |-> id, symbol |-> symbol, side |-> "BUY", type |-> "STOP_MARKET",
        quantity |-> 1, price |-> MaxPrice + 1, expire_time |-> None ] :
        id \in OrderIds, symbol \in Symbols }

\* An order id belongs to one Order object for the whole run: an id that
\* was submitted before is submitted again as the object it was, with the
\* price its modifications gave it.
OfBook(universe) ==
    { order \in Fresh(universe) \cup Fresh({ order_book[id] : id \in DOMAIN order_book }) :
        order.id \in DOMAIN order_book => order = order_book[order.id] }

\* A strategy that has one order at a time; the sink keeps the last event
\* of the order.
NextLife ==
    \/ \E order \in OfBook(LifeOrders) : submit_order(order, Owner) /\ Observe
    \/ \E order \in Working, strategy_id \in StrategyIds :
          submit_order(order, strategy_id) /\ Observe
    \/ \E order \in Held(OrderIds) : cancel_order(order) /\ Observe
    \/ \E order \in Held(OrderIds), new_price \in Prices :
          modify_order(order, new_price) /\ Observe
    \/ \E time \in Times : iterate(time) /\ Observe
    \/ collateral_inquiry /\ Observe

SpecLife == Init /\ [][NextLife]_vars

(***************************************************************************)
(* The driver of a run over several weeks.                                 *)
(***************************************************************************)
\* The times the driver of a long run steps through.
CalendarTimes == 0 .. MaxDayTime

\* The calendar day a time falls on; a time step is a day.
CalendarDay(time) == time

\* The driver moves the clock forward to the time and calls iterate with it.
IterateOnClock(time) ==
    /\ time >= clock
    /\ clock' = time
    /\ iterate(time)
    /\ days_seen' = days_seen \cup {CalendarDay(time)}
    /\ UNCHANGED << wind, last_event, had_working, order_book, admitted_at >>

NextDay ==
    \/ \E time \in CalendarTimes : IterateOnClock(time)
    \/ collateral_inquiry /\ Unobserved

SpecDay == Init /\ [][NextDay]_vars

\* The driver winds the client forward once, before anything else, and
\* then iterates.
NextWind ==
    \/ \E to_time \in 0 .. MaxToTime, time_step \in 0 .. MaxTimeStep :
          /\ call.op = "__init__"
          /\ set_initial_iteration(to_time, time_step)
          /\ UNCHANGED << last_event, had_working, days_seen, order_book,
                          admitted_at >>
    \/ set_initial_iteration_pass
          /\ UNCHANGED << last_event, had_working, days_seen, order_book,
                          admitted_at >>
    \/ set_initial_iteration_return
          /\ UNCHANGED << last_event, had_working, days_seen, order_book,
                          admitted_at >>
    \/ \E time \in Times : ~wind.running /\ IterateOnClock(time)
    \/ ~wind.running /\ collateral_inquiry /\ Unobserved

SpecWind == Init /\ [][NextWind]_vars

(***************************************************************************)
(* An event sink that issues commands while an event of the scan is being  *)
(* delivered to it.                                                        *)
(***************************************************************************)
\* The orders the sink submits from inside a delivery: buy stops.
SinkOrders == { order \in PairOrders : order.type = "STOP_MARKET" }

\* What the sink does with one fill or expiry event of the scan; the orders
\* it submits are good till cancelled.
SinkCommands ==
    {[ kind |-> "none" ]}
        \cup { [ kind |-> "cancel_order", order_id |-> id ] : id \in PairIds }
        \cup { [ kind |-> "submit_order", order |-> order ] :
                 order \in { o \in SinkOrders : o.expire_time = None } }

\* The precondition of the command holds when the sink issues it.
Permits(self, command) ==
    CASE command.kind = "none" -> TRUE
      [] command.kind = "cancel_order" ->
            command.order_id \in WorkingIds(self.working_orders)
      [] command.kind = "submit_order" ->
            command.order.id \notin WorkingIds(self.working_orders)

\* The command runs to its end inside the delivery.
React(self, command) ==
    CASE ~Permits(self, command) -> self
      [] command.kind = "none" -> self
      [] command.kind = "cancel_order" ->
            cancel_order_(self, WorkingGet(self.working_orders, command.order_id))
      [] command.kind = "submit_order" -> submit_order_(self, command.order)

\* The loop over the copy of working_orders; react[k] is what the sink does
\* when the event of the k-th order of the copy is delivered.  A del of a
\* key that is no longer in working_orders raises KeyError and ends the call.
RECURSIVE ScanSink(_, _, _, _)
ScanSink(run, copy, time, react) ==
    IF copy = << >> \/ run.failed
    THEN run
    ELSE LET order == Head(copy)
             command == Head(react)
             self == run.self
             removed == [ self EXCEPT !.working_orders = WorkingDel(@, order.id) ]
             filled == OrderFilled(order, ScanFillPrice(order))
         IN  IF ~(ScanFills(order) \/ ScanExpires(order, time))
             THEN ScanSink([ run EXCEPT !.permitted = @ /\ command.kind = "none" ],
                           Tail(copy), time, Tail(react))
             ELSE IF order.id \notin WorkingIds(self.working_orders)
             THEN [ run EXCEPT !.failed = TRUE ]
             ELSE LET delivered ==
                        IF ScanFills(order)
                        THEN _on_event(removed, filled)
                        ELSE _on_event(removed, OrderExpired(order))
                      reacted == React(delivered, command)
                  IN  ScanSink([ self |-> IF ScanFills(order)
                                          THEN _adjust_positions(reacted, filled)
                                          ELSE reacted,
                                 failed |-> FALSE,
                                 permitted |-> run.permitted
                                                 /\ Permits(delivered, command) ],
                               Tail(copy), time, Tail(react))

\* The ids of the orders the sink submits during the scan.
SubmittedInScan(react) ==
    { react[k].order.id : k \in { i \in 1 .. Len(react) : react[i].kind = "submit_order" } }

\* iterate with a sink that reacts to the events of the scan.
iterate_sink(time, react) ==
    /\ iteration < NumBars
    /\ Len(react) = Len(working_orders)
    /\ LET rolled == IF day_number # Day(time)
                     THEN collateral_inquiry_(Self, account.cash_balance, money_zero)
                     ELSE Self
           run == ScanSink([ self |-> rolled, failed |-> FALSE, permitted |-> TRUE ],
                           rolled.working_orders, time, react)
       IN  /\ run.permitted
           /\ Commit(run.self)
           /\ iteration' = IF run.failed THEN iteration ELSE iteration + 1
           /\ call' = [ op |-> "iterate", time |-> time, copy |-> working_orders,
                        raised |-> run.failed, react |-> react ]
           /\ order_strategy_index' =
                  [ id \in DOMAIN order_strategy_index \cup SubmittedInScan(react) |->
                      IF id \in SubmittedInScan(react)
                      THEN Owner
                      ELSE order_strategy_index[id] ]
    /\ IF day_number # Day(time)
       THEN /\ day_number' = Day(time)
            /\ account_cash_start_day' = account.cash_balance
            /\ account_cash_activity_day' = money_zero
       ELSE UNCHANGED << day_number, account_cash_start_day,
                         account_cash_activity_day >>
    /\ UNCHANGED slippage_index

\* The exception of a failed iterate ends the driver's run.
Crashed == call.op = "iterate" /\ call.raised

\* A strategy with up to two buy stops, whose sink reacts to scan events.
NextSink ==
    \/ \E order \in Fresh(SinkOrders) :
          ~Crashed /\ submit_order(order, Owner) /\ Unobserved
    \/ \E order \in Held(PairIds) :
          ~Crashed /\ cancel_order(order) /\ Unobserved
    \/ \E time \in Times :
          \E react \in [ 1 .. Len(working_orders) -> SinkCommands ] :
             ~Crashed /\ iterate_sink(time, react) /\ Unobserved
    \/ ~Crashed /\ collateral_inquiry /\ Unobserved

SpecSink == Init /\ [][NextSink]_vars

(***************************************************************************)
(* The bar cursor at the admission of each working order.                  *)
(***************************************************************************)
\* The value of self.iteration when the order last became working.
ObserveCursor ==
    /\ admitted_at' =
           [ id \in DOMAIN admitted_at \cup WorkingIds(working_orders') |->
               IF id \in WorkingIds(working_orders') \ WorkingIds(working_orders)
               THEN iteration
               ELSE admitted_at[id] ]
    /\ UNCHANGED << clock, wind, last_event, had_working, days_seen, order_book >>

\* The orders of the strategy whose cursor is observed: market and stop
\* orders of both sides.
CursorOrders == { order \in Orders : order.type \in {"MARKET", "STOP_MARKET"} }

\* A strategy that has one order at a time, with the cursor of its
\* admission observed.
NextCursor ==
    \/ \E order \in Fresh(CursorOrders) : submit_order(order, Owner) /\ ObserveCursor
    \/ \E order \in Held(OrderIds) : cancel_order(order) /\ ObserveCursor
    \/ \E order \in Held(OrderIds), new_price \in Prices :
          modify_order(order, new_price) /\ ObserveCursor
    \/ \E time \in Times : iterate(time) /\ ObserveCursor
    \/ collateral_inquiry /\ ObserveCursor

SpecCursor == Init /\ [][NextCursor]_vars

(***************************************************************************)
(* Reference definitions used by the properties below.                     *)
(***************************************************************************)
StopTypes == {"STOP_MARKET", "STOP_LIMIT", "MIT"}

\* The bar values of iteration i, read from the data.
HighestAsk(symbol, i) == data_bars_ask[symbol][i + 1][2]

LowestBid(symbol, i) == data_bars_bid[symbol][i + 1][3]

ClosingAsk(symbol, i) == data_bars_ask[symbol][i + 1][4]

ClosingBid(symbol, i) == data_bars_bid[symbol][i + 1][4]

\* The admission predicate: a price on the wrong side of the close.
AdmissionFails(side, type, price, Ca, Cb) ==
    \/ side = "BUY" /\ type \in StopTypes /\ price < Ca
    \/ side = "BUY" /\ type = "LIMIT" /\ price > Ca
    \/ side = "SELL" /\ type \in StopTypes /\ price > Cb
    \/ side = "SELL" /\ type = "LIMIT" /\ price < Cb

\* The events that are order events, in the order of their emission.
OrderEvents(evs) == SelectSeq(evs, LAMBDA e : e.kind # "AccountEvent")

\* The positions of the events of one kind for one order.
EventsOf(evs, kind, order_id) ==
    { j \in 1 .. Len(evs) : evs[j].kind = kind /\ evs[j].order_id = order_id }

Kinds(evs) == [ j \in 1 .. Len(evs) |-> evs[j].kind ]

IdsOf(wo) == [ i \in 1 .. Len(wo) |-> wo[i].id ]

Without(wo, order_id) == SelectSeq(wo, LAMBDA o : o.id # order_id)

\* C1: submit_order of an order whose id is not working emits
\* OrderSubmitted, OrderAccepted and then exactly one more order event for
\* that order: OrderFilled for a MARKET order, OrderRejected when the
\* admission price check fails, OrderWorking otherwise; afterwards the order
\* is working iff OrderWorking was emitted.
C1_SubmitOutcome ==
    [][ (call'.op = "submit_order"
         /\ call'.order.id \notin WorkingIds(working_orders))
        => LET order == call'.order
               emitted == OrderEvents(events')
           IN  /\ Len(emitted) = 3
               /\ \A j \in 1 .. 3 : emitted[j].order_id = order.id
               /\ emitted[1].kind = "OrderSubmitted"
               /\ emitted[2].kind = "OrderAccepted"
               /\ emitted[3].kind \in {"OrderFilled", "OrderRejected", "OrderWorking"}
               /\ (emitted[3].kind = "OrderFilled") <=> (order.type = "MARKET")
               /\ (emitted[3].kind = "OrderRejected")
                     <=> AdmissionFails(order.side, order.type, order.price,
                                        ClosingAsk(order.symbol, iteration),
                                        ClosingBid(order.symbol, iteration))
               /\ (order.id \in WorkingIds(working_orders'))
                     <=> (emitted[3].kind = "OrderWorking") ]_vars

C1_Witness ==
    /\ call.op = "submit_order"
    /\ ~call.raised
    /\ Kinds(events) = << "OrderSubmitted", "OrderAccepted", "OrderWorking" >>
    /\ call.order.id \in WorkingIds(working_orders)

\* C2: a non-MARKET order submitted is rejected exactly when the admission
\* predicate holds of its price and the closing ask and bid of the current
\* bar, and becomes working in every other case, equality included.
C2_Admission ==
    [][ (call'.op = "submit_order"
         /\ call'.order.id \notin WorkingIds(working_orders)
         /\ call'.order.type # "MARKET")
        => LET order == call'.order
               fails == AdmissionFails(order.side, order.type, order.price,
                                       ClosingAsk(order.symbol, iteration),
                                       ClosingBid(order.symbol, iteration))
           IN  /\ (EventsOf(events', "OrderRejected", order.id) # {}) <=> fails
               /\ (EventsOf(events', "OrderWorking", order.id) # {}) <=> ~fails
               /\ (order.id \in WorkingIds(working_orders')) <=> ~fails ]_vars

C2_Witness ==
    /\ call.op = "submit_order"
    /\ ~call.raised
    /\ call.order.side = "BUY"
    /\ call.order.type \in StopTypes
    /\ call.order.price = ClosingAsk(call.order.symbol, iteration)
    /\ call.order.id \in WorkingIds(working_orders)

\* C3: in the scan of iterate a working BUY order of a stop type is filled
\* iff the highest ask of the bar is >= its price, a working SELL order of a
\* stop type iff the lowest bid is <= its price; a filled order has left the
\* working orders when its OrderFilled is delivered.
C3_StopFill ==
    [][ call'.op = "iterate"
        => \A i \in 1 .. Len(working_orders) :
             LET order == working_orders[i]
                 fills == EventsOf(events', "OrderFilled", order.id)
             IN  order.type \in StopTypes
                 => /\ (fills # {})
                       <=> IF order.side = "BUY"
                           THEN HighestAsk(order.symbol, iteration) >= order.price
                           ELSE LowestBid(order.symbol, iteration) <= order.price
                    /\ \A j \in fills :
                          /\ order.id \notin events'[j].working_ids
                          /\ order.id \notin WorkingIds(working_orders') ]_vars

C3_Witness ==
    /\ call.op = "iterate"
    /\ \E i \in 1 .. Len(call.copy) :
          /\ call.copy[i].type \in StopTypes
          /\ call.copy[i].side = "BUY"
          /\ call.copy[i].price = HighestAsk(call.copy[i].symbol, iteration - 1)
          /\ EventsOf(events, "OrderFilled", call.copy[i].id) # {}

\* C4: in the scan of iterate a working BUY LIMIT order is filled iff the
\* highest ask of the bar is strictly below its price, a working SELL LIMIT
\* order iff the lowest bid is strictly above its price.
C4_LimitFill ==
    [][ call'.op = "iterate"
        => \A i \in 1 .. Len(working_orders) :
             LET order == working_orders[i]
                 fills == EventsOf(events', "OrderFilled", order.id)
             IN  order.type = "LIMIT"
                 => /\ (fills # {})
                       <=> IF order.side = "BUY"
                           THEN HighestAsk(order.symbol, iteration) < order.price
                           ELSE LowestBid(order.symbol, iteration) > order.price
                    /\ \A j \in fills :
                          events'[j].fill_price =
                             IF order.side = "BUY"
                             THEN order.price + slippage_index[order.symbol]
                             ELSE order.price - slippage_index[order.symbol] ]_vars

\* C5: every OrderFilled carries the reference price moved against the
\* order by slippage_index[symbol] = tick_size * slippage_ticks >= 0, the
\* reference being the closing ask or bid for a MARKET order filled by
\* submit_order and the order's price for an order filled by iterate; the
\* fill is never better than the reference and has the order's quantity.
C5_FillPrice ==
    [][ LET fills == { j \in 1 .. Len(events') : events'[j].kind = "OrderFilled" }
            slippage(symbol) == slippage_index[symbol]
            Against(e, order, reference) ==
                /\ e.order_id = order.id
                /\ e.symbol = order.symbol
                /\ e.side = order.side
                /\ e.quantity = order.quantity
                /\ order.side = "BUY"
                     => /\ e.fill_price = reference + slippage(order.symbol)
                        /\ e.fill_price >= reference
                /\ order.side = "SELL"
                     => /\ e.fill_price = reference - slippage(order.symbol)
                        /\ e.fill_price <= reference
        IN  /\ \A symbol \in Symbols :
                 \E slippage_ticks \in 0 .. MaxSlippageTicks :
                    /\ slippage(symbol) = instruments[symbol].tick_size * slippage_ticks
                    /\ slippage(symbol) >= 0
            /\ call'.op = "submit_order"
                 => \A j \in fills :
                      /\ call'.order.type = "MARKET"
                      /\ Against(events'[j], call'.order,
                                 IF call'.order.side = "BUY"
                                 THEN ClosingAsk(call'.order.symbol, iteration)
                                 ELSE ClosingBid(call'.order.symbol, iteration))
            /\ call'.op = "iterate"
                 => \A j \in fills :
                      \E i \in 1 .. Len(working_orders) :
                         Against(events'[j], working_orders[i],
                                 working_orders[i].price)
            /\ call'.op \notin {"submit_order", "iterate"} => fills = {} ]_vars

C5_Witness ==
    /\ call.op = "iterate"
    /\ \E j \in 1 .. Len(events), i \in 1 .. Len(call.copy) :
          /\ events[j].kind = "OrderFilled"
          /\ events[j].order_id = call.copy[i].id
          /\ slippage_index[events[j].symbol] > 0
          /\ events[j].fill_price # call.copy[i].price

\* C6: in iterate(t) a scanned order that is not filled leaves the working
\* orders with exactly one OrderExpired iff its expire_time is set and
\* t >= expire_time, and otherwise stays working with no OrderExpired; an
\* order filled in the call gets no OrderExpired.
C6_Expiry ==
    [][ call'.op = "iterate"
        => \A i \in 1 .. Len(working_orders) :
             LET order == working_orders[i]
                 filled == EventsOf(events', "OrderFilled", order.id) # {}
                 expired == EventsOf(events', "OrderExpired", order.id)
                 due == order.expire_time # None
                        /\ call'.time >= order.expire_time
             IN  /\ filled => expired = {}
                 /\ ~filled /\ due
                      => /\ Cardinality(expired) = 1
                         /\ order.id \notin WorkingIds(working_orders')
                 /\ ~filled /\ ~due
                      => /\ expired = {}
                         /\ \E k \in 1 .. Len(working_orders') :
                               working_orders'[k] = order ]_vars

C6_Witness ==
    /\ call.op = "iterate"
    /\ \E i \in 1 .. Len(call.copy) :
          /\ call.copy[i].expire_time # None
          /\ call.time = call.copy[i].expire_time
          /\ EventsOf(events, "OrderExpired", call.copy[i].id) # {}
          /\ EventsOf(events, "OrderFilled", call.copy[i].id) = {}

\* C7: cancel_order of a working order emits exactly one event, the
\* OrderCancelled of that order, and removes exactly that order: the other
\* working orders, the positions, the iteration and the account fields are
\* unchanged.
C7_CancelFrame ==
    [][ (call'.op = "cancel_order"
         /\ call'.order_id \in WorkingIds(working_orders))
        => /\ Len(events') = 1
           /\ events'[1].kind = "OrderCancelled"
           /\ events'[1].order_id = call'.order_id
           /\ working_orders' = Without(working_orders, call'.order_id)
           /\ UNCHANGED << positions, completed_positions, positions_count,
                           iteration, day_number, account,
                           account_cash_start_day,
                           account_cash_activity_day >> ]_vars

C7_Witness ==
    /\ call.op = "cancel_order"
    /\ ~call.raised
    /\ Kinds(events) = << "OrderCancelled" >>
    /\ Len(working_orders) = 1
    /\ working_orders[1].id # call.order_id

\* C8: modify_order of a working order emits exactly one event:
\* OrderCancelReject with code INVALID PRICE when the admission predicate
\* holds of the price the order has at the call, and OrderModified with the
\* new price otherwise; the same orders are working afterwards.
C8_ModifyOutcome ==
    [][ (call'.op = "modify_order"
         /\ call'.order_id \in WorkingIds(working_orders))
        => LET order == WorkingGet(working_orders, call'.order_id)
               fails == AdmissionFails(order.side, order.type, order.price,
                                       ClosingAsk(order.symbol, iteration),
                                       ClosingBid(order.symbol, iteration))
           IN  /\ Len(events') = 1
               /\ events'[1].order_id = order.id
               /\ fails => /\ events'[1].kind = "OrderCancelReject"
                           /\ events'[1].reason_code = "INVALID PRICE"
               /\ ~fails => /\ events'[1].kind = "OrderModified"
                            /\ events'[1].new_price = call'.new_price
               /\ IdsOf(working_orders') = IdsOf(working_orders) ]_vars

C8_Witness ==
    /\ call.op = "modify_order"
    /\ ~call.raised
    /\ Kinds(events) = << "OrderCancelReject" >>
    /\ call.order_id \in WorkingIds(working_orders)

\* C9: a modify_order whose new price fails the admission check against the
\* current closing ask and bid is answered by OrderCancelReject with code
\* INVALID PRICE, never by OrderModified.
C9_ModifyNewPrice ==
    [][ (call'.op = "modify_order"
         /\ call'.order_id \in WorkingIds(working_orders))
        => LET order == WorkingGet(working_orders, call'.order_id)
           IN  AdmissionFails(order.side, order.type, call'.new_price,
                              ClosingAsk(order.symbol, iteration),
                              ClosingBid(order.symbol, iteration))
               => /\ Len(events') = 1
                  /\ events'[1].kind = "OrderCancelReject"
                  /\ events'[1].reason_code = "INVALID PRICE" ]_vars

\* C10: submit_order with an order id that is working, and cancel_order or
\* modify_order with an order id that is not working, emit no event and
\* leave the working orders, the positions, the registered ownership and
\* the account unchanged.
C10_FailFast ==
    [][ (\/ /\ call'.op = "submit_order"
            /\ call'.order.id \in WorkingIds(working_orders)
         \/ /\ call'.op \in {"cancel_order", "modify_order"}
            /\ call'.order_id \notin WorkingIds(working_orders))
        => /\ events' = << >>
           /\ UNCHANGED << working_orders, positions, completed_positions,
                           positions_count, order_strategy_index, account,
                           account_cash_start_day, account_cash_activity_day,
                           iteration, day_number, slippage_index >> ]_vars

C10_Witness ==
    /\ call.op = "submit_order"
    /\ call.raised
    /\ call.order.id \in WorkingIds(working_orders)
    /\ events = << >>

(***************************************************************************)
(* The lifecycle of an order, read off its events.                         *)
(***************************************************************************)
Terminal == {"OrderRejected", "OrderFilled", "OrderCancelled", "OrderExpired"}

\* The last events of an order that is working.  OrderCancelReject answers
\* a refused modification and leaves the order where it was.
WorkingPhase == {"OrderWorking", "OrderModified", "OrderCancelReject"}

OrderEventAt(evs) == { j \in 1 .. Len(evs) : evs[j].kind # "AccountEvent" }

\* The kind of the order event that precedes event j for the same order:
\* in evs, or else the last one before evs.
Prev(last, evs, j) ==
    LET earlier == { k \in OrderEventAt(evs) :
                       k < j /\ evs[k].order_id = evs[j].order_id }
    IN  IF earlier # {}
        THEN evs[CHOOSE k \in earlier : \A m \in earlier : m <= k].kind
        ELSE IF evs[j].order_id \in DOMAIN last
        THEN last[evs[j].order_id]
        ELSE "Initialised"

\* One step along Initialised -> Submitted -> Accepted -> (Rejected |
\* Working -> (Filled | Cancelled | Expired | Modified -> Working)).
LifecycleStep(prev, kind) ==
    CASE prev = "Initialised" -> kind = "OrderSubmitted"
      [] prev = "OrderSubmitted" -> kind = "OrderAccepted"
      [] prev = "OrderAccepted" -> kind \in {"OrderRejected", "OrderWorking"}
      [] prev \in WorkingPhase ->
            kind \in {"OrderFilled", "OrderCancelled", "OrderExpired",
                      "OrderModified", "OrderCancelReject"}
      [] OTHER -> FALSE

\* C11 (as claimed): the order events of every order follow the lifecycle:
\* OrderFilled, OrderCancelled, OrderExpired and OrderModified come only
\* after an OrderWorking and nothing follows a terminal event.
C11_LifecycleStrict ==
    [][ \A j \in OrderEventAt(events') :
          LifecycleStep(Prev(last_event, events', j), events'[j].kind) ]_vars

\* C11 (amended): the order events of every order follow the lifecycle
\* with two more steps: OrderFilled directly after OrderAccepted, for a
\* MARKET order in submit_order, and OrderSubmitted after a terminal event,
\* when the order id is submitted again.
C11_Lifecycle ==
    [][ \A j \in OrderEventAt(events') :
          LET prev == Prev(last_event, events', j)
              kind == events'[j].kind
          IN  \/ LifecycleStep(prev, kind)
              \/ /\ prev = "OrderAccepted"
                 /\ kind = "OrderFilled"
                 /\ call'.op = "submit_order"
                 /\ call'.order.type = "MARKET"
              \/ /\ prev \in Terminal
                 /\ kind = "OrderSubmitted"
                 /\ call'.op = "submit_order"
                 /\ j = 1 ]_vars

C11_Witness ==
    /\ call.op = "iterate"
    /\ \E i \in 1 .. Len(call.copy) :
          /\ EventsOf(events, "OrderFilled", call.copy[i].id) # {}
          /\ call.copy[i].id \in had_working
          /\ last_event[call.copy[i].id] = "OrderFilled"

\* C12 (as claimed): when the driver has called iterate for every bar, the
\* last event of every order submitted is OrderRejected, OrderFilled,
\* OrderCancelled or OrderExpired.
C12_TerminalAtEnd ==
    iteration = NumBars
    => \A order_id \in DOMAIN last_event : last_event[order_id] \in Terminal

\* C12 (amended): the last event of an order submitted is OrderRejected,
\* OrderFilled, OrderCancelled or OrderExpired exactly when the order is
\* not working; the last event of a working order is OrderWorking,
\* OrderModified or OrderCancelReject, also when iterate was called for
\* every bar.
C12_TerminalIffNotWorking ==
    \A order_id \in DOMAIN last_event :
       IF order_id \in WorkingIds(working_orders)
       THEN last_event[order_id] \in WorkingPhase
       ELSE last_event[order_id] \in Terminal

C12_Witness ==
    /\ iteration = NumBars
    /\ call.op = "iterate"
    /\ \E i \in 1 .. Len(working_orders) :
          /\ working_orders[i].expire_time = None
          /\ last_event[working_orders[i].id] = "OrderWorking"

\* The number of OrderWorking events in evs.
NWorking(evs) ==
    Cardinality({ j \in 1 .. Len(evs) : evs[j].kind = "OrderWorking" })

\* C13 (as claimed): the working orders are as many as the OrderWorking
\* events minus the terminal events of orders that have had an OrderWorking
\* event.  Both sides are zero after construction, so this is every call
\* changing both sides by the same amount.
C13_BalanceOfHadWorking ==
    [][ Len(working_orders') - Len(working_orders)
        = NWorking(events')
          - Cardinality({ j \in OrderEventAt(events') :
                /\ events'[j].kind \in Terminal
                /\ \/ events'[j].order_id \in had_working
                   \/ \E k \in 1 .. j - 1 :
                         /\ events'[k].kind = "OrderWorking"
                         /\ events'[k].order_id = events'[j].order_id }) ]_vars

\* C13 (amended): the working orders are as many as the OrderWorking events
\* minus the terminal events of orders that were working when the event was
\* emitted: an order id submitted again after a terminal event counts as a
\* new order.
C13_BalanceOfWorking ==
    [][ Len(working_orders') - Len(working_orders)
        = NWorking(events')
          - Cardinality({ j \in OrderEventAt(events') :
                /\ events'[j].kind \in Terminal
                /\ Prev(last_event, events', j) \in WorkingPhase }) ]_vars

\* C14: iterate(t) captures the daily cash anchor (cash_start_day becomes
\* the cash balance, cash_activity_day becomes zero and one AccountEvent is
\* emitted) when t falls on a calendar day that no earlier iterate was
\* given, and at no other iterate.
C14_DailyAnchor ==
    [][ call'.op = "iterate"
        => LET account_events ==
                   { j \in 1 .. Len(events') : events'[j].kind = "AccountEvent" }
           IN  IF CalendarDay(call'.time) \notin days_seen
               THEN /\ Cardinality(account_events) = 1
                    /\ events'[1].kind = "AccountEvent"
                    /\ events'[1].cash_start_day = account.cash_balance
                    /\ events'[1].cash_activity_day = money_zero
                    /\ account_cash_start_day' = account.cash_balance
                    /\ account_cash_activity_day' = money_zero
               ELSE /\ account_events = {}
                    /\ UNCHANGED << account_cash_start_day,
                                    account_cash_activity_day >> ]_vars

C13_Witness ==
    /\ call.op = "submit_order"
    /\ ~call.raised
    /\ call.order.id \in had_working
    /\ Kinds(events) = << "OrderSubmitted", "OrderAccepted", "OrderRejected" >>
    /\ working_orders = << >>

\* The place of an order id in the working orders.
Place(wo, order_id) == CHOOSE i \in 1 .. Len(wo) : wo[i].id = order_id

\* C15: in one iterate the AccountEvent of the day rollover, if there is
\* one, comes before every OrderFilled and OrderExpired, and the OrderFilled
\* and OrderExpired events of different orders come in the order in which
\* the orders were inserted into the working orders at the start of the scan.
C15_IterateOrder ==
    [][ call'.op = "iterate"
        => LET scanned == { j \in 1 .. Len(events') :
                              events'[j].kind \in {"OrderFilled", "OrderExpired"} }
               account_events ==
                   { j \in 1 .. Len(events') : events'[j].kind = "AccountEvent" }
           IN  /\ \A a \in account_events : \A j \in scanned : a < j
               /\ \A j \in scanned :
                     events'[j].order_id \in WorkingIds(working_orders)
               /\ \A j \in scanned, k \in scanned :
                     j < k => Place(working_orders, events'[j].order_id)
                              < Place(working_orders, events'[k].order_id) ]_vars

C15_Witness ==
    /\ call.op = "iterate"
    /\ Len(call.copy) = 2
    /\ call.copy[1].id = 2
    /\ Len(events) = 3
    /\ events[1].kind = "AccountEvent"
    /\ events[2].kind \in {"OrderFilled", "OrderExpired"}
    /\ events[2].order_id = 2
    /\ events[3].kind \in {"OrderFilled", "OrderExpired"}
    /\ events[3].order_id = 1

\* The number of positions opened for a symbol according to a count dict.
Opened(count, symbol) == IF symbol \in DOMAIN count THEN count[symbol] ELSE 0

\* The OrderFilled events of a symbol in evs.
FillsOf(evs, symbol) ==
    { j \in 1 .. Len(evs) : evs[j].kind = "OrderFilled" /\ evs[j].symbol = symbol }

\* C16: the open positions hold one position per symbol, that symbol's
\* latest one, and none of them is exited; positions_count of a symbol never
\* decreases: a call in which a fill arrives for a symbol with no open
\* position raises it by one, every other call leaves it unchanged.
C16_OpenPositions ==
    [][ /\ \A symbol \in DOMAIN positions' :
             /\ positions'[symbol].symbol = symbol
             /\ positions'[symbol].id = << symbol, Opened(positions_count', symbol) >>
             /\ ~is_exited(positions'[symbol])
        /\ \A symbol \in Symbols :
             /\ Cardinality(FillsOf(events', symbol)) <= 1
             /\ Opened(positions_count', symbol) >= Opened(positions_count, symbol)
             /\ Opened(positions_count', symbol) - Opened(positions_count, symbol)
                = IF FillsOf(events', symbol) # {} /\ symbol \notin DOMAIN positions
                  THEN 1
                  ELSE 0 ]_vars

C16_Witness ==
    /\ call.op = "iterate"
    /\ \E symbol \in DOMAIN positions :
          /\ FillsOf(events, symbol) # {}
          /\ positions[symbol].quantity = 2
          /\ positions_count[symbol] = 1

\* C17: a position whose net quantity a fill brings to zero leaves the open
\* positions and enters the completed positions under its id in that call;
\* a completed position is never changed, removed or opened again; a
\* position opened for a symbol gets the id <symbol>-<N> with N one more
\* than the number of positions opened for the symbol before.
C17_CompletedPositions ==
    [][ /\ \A id \in DOMAIN completed_positions :
             /\ id \in DOMAIN completed_positions'
             /\ completed_positions'[id] = completed_positions[id]
        /\ \A id \in DOMAIN completed_positions' :
             /\ completed_positions'[id].id = id
             /\ is_exited(completed_positions'[id])
        /\ \A symbol \in DOMAIN positions' :
             positions'[symbol].id \notin DOMAIN completed_positions'
        /\ \A symbol \in DOMAIN positions \ DOMAIN positions' :
             /\ FillsOf(events', symbol) # {}
             /\ positions[symbol].id \notin DOMAIN completed_positions
             /\ positions[symbol].id \in DOMAIN completed_positions'
        /\ \A symbol \in DOMAIN positions' \ DOMAIN positions :
             positions'[symbol].id = << symbol, Opened(positions_count, symbol) + 1 >>
        /\ \A symbol \in DOMAIN positions \cap DOMAIN positions' :
             positions'[symbol].id = positions[symbol].id ]_vars

C17_Witness ==
    /\ call.op = "iterate"
    /\ \E symbol \in DOMAIN positions :
          /\ FillsOf(events, symbol) # {}
          /\ positions[symbol].id = << symbol, 2 >>
          /\ << symbol, 1 >> \in DOMAIN completed_positions

\* C18: every OrderFilled handed to the sink is followed, in the events of
\* the same call, by an AccountEvent.
C18_FillThenAccountEvent ==
    [][ \A j \in 1 .. Len(events') :
          events'[j].kind = "OrderFilled"
          => \E k \in j + 1 .. Len(events') : events'[k].kind = "AccountEvent" ]_vars

\* C19: set_initial_iteration terminates: every pass of its loop brings
\* the wall clock closer to to_time and increments iteration exactly when
\* the wall clock equals the next index entry; the call returns with the
\* wall clock not before to_time and the clock set to it; when to_time is
\* not after the first index entry the call returns at once and iteration
\* is still 0.
C19_WindTerminates ==
    [][ /\ (wind.running /\ wind'.running)
           => /\ wind'.to_time - wind'.current < wind.to_time - wind.current
              /\ wind'.current = wind.current + wind.time_step
              /\ wind.next_index < Len(data_minute_index)
                   => iteration' - iteration
                      = IF data_minute_index[wind.next_index + 1] = wind.current
                        THEN 1 ELSE 0
        /\ (wind.running /\ ~wind'.running)
           => /\ ~(wind.current < wind.to_time)
              /\ clock' = wind.current
              /\ wind.to_time <= data_minute_index[1]
                   => iteration' = 0 /\ clock' = data_minute_index[1] ]_vars

\* The fill and expiry events of a call, as positions in its events.
ScanEventAt(evs) ==
    { j \in 1 .. Len(evs) : evs[j].kind \in {"OrderFilled", "OrderExpired"} }

\* C21: iterate scans exactly the orders that were working when the scan
\* began, also when the sink issues submit_order or cancel_order while a
\* fill or expiry event of the scan is delivered: the call does not fail and
\* increments iteration, every order of the snapshot that meets the fill or
\* expiry test gets its event, only orders of the snapshot get one, and an
\* order submitted during the scan gets none in that call.
C21_ScanSnapshot ==
    [][(call'.op = "iterate" /\ "react" \in DOMAIN call') =>
          /\ ~call'.raised
          /\ iteration' = iteration + 1
          /\ \A k \in 1 .. Len(call'.copy) :
                LET order == call'.copy[k]
                IN  (ScanFills(order) \/ ScanExpires(order, call'.time)) =>
                       \E j \in ScanEventAt(events') :
                          events'[j].order_id = order.id
          /\ \A j \in ScanEventAt(events') :
                /\ events'[j].order_id \in WorkingIds(call'.copy)
                /\ \A i \in 1 .. j - 1 :
                      ~(/\ events'[i].kind = "OrderSubmitted"
                        /\ events'[i].order_id = events'[j].order_id)]_vars

\* The part of C21 that holds: an order the sink submits during the scan is
\* not scanned in that call.
C21_SubmittedNotScanned ==
    [][(call'.op = "iterate" /\ "react" \in DOMAIN call') =>
          \A j \in ScanEventAt(events') :
             \A i \in 1 .. j - 1 :
                ~(/\ events'[i].kind = "OrderSubmitted"
                  /\ events'[i].order_id = events'[j].order_id)]_vars

\* The monetary fields of the account events of a call.
Monetary(evs) ==
    [ j \in { i \in 1 .. Len(evs) : evs[i].kind = "AccountEvent" } |->
        << evs[j].cash_balance, evs[j].cash_start_day, evs[j].cash_activity_day >> ]

\* C22: no operation changes the account's cash: after every call the
\* account holds the starting capital, every AccountEvent of the call carries
\* cash_balance and cash_start_day equal to the starting capital and
\* cash_activity_day zero, and of two consecutive collateral_inquiry calls
\* the second yields the monetary fields of the first.
C22_CashUnchanged ==
    [][/\ account'.cash_balance = money(starting_capital)
       /\ account_cash_start_day' = money(starting_capital)
       /\ account_cash_activity_day' = money_zero
       /\ \A j \in DOMAIN Monetary(events') :
             Monetary(events')[j] =
                << money(starting_capital), money(starting_capital), money_zero >>
       /\ (call.op = "collateral_inquiry" /\ call'.op = "collateral_inquiry") =>
             Monetary(events') = Monetary(events)]_vars

\* A collateral_inquiry after fills have opened and closed a position and
\* the day has rolled over.
C22_Witness ==
    /\ call.op = "collateral_inquiry"
    /\ DOMAIN Monetary(events) # {}
    /\ completed_positions # EmptyDict
    /\ day_number # 0

\* C23: the bar cursor moves only in iterate: iterate increments iteration
\* by exactly one, submit_order, cancel_order, modify_order and
\* collateral_inquiry leave it unchanged; an order of a stop type that
\* becomes working at iteration i was admitted against the closing prices
\* of bar i, and the first iterate that scans it fills it iff the high
\* (BUY) or low (SELL) of that same bar i reaches its price.
C23_CursorFrame ==
    [][/\ call'.op = "iterate" => iteration' = iteration + 1
       /\ call'.op \in {"submit_order", "cancel_order", "modify_order",
                        "collateral_inquiry"} => iteration' = iteration
       /\ \A id \in WorkingIds(working_orders') \ WorkingIds(working_orders) :
             LET order == call'.order
                 i == admitted_at'[id]
             IN  /\ call'.op = "submit_order" /\ order.id = id
                 /\ i = iteration
                 /\ ~AdmissionFails(order.side, order.type, order.price,
                                    ClosingAsk(order.symbol, i),
                                    ClosingBid(order.symbol, i))
       /\ call'.op = "iterate" =>
             \A k \in 1 .. Len(working_orders) :
                LET order == working_orders[k]
                    i == admitted_at[order.id]
                IN  (i = iteration /\ order.type \in StopTypes) =>
                       ((EventsOf(events', "OrderFilled", order.id) # {})
                          <=> IF order.side = "BUY"
                              THEN HighestAsk(order.symbol, i) >= order.price
                              ELSE LowestBid(order.symbol, i) <= order.price)]_vars

\* An order submitted between the first and the second iterate, admitted
\* against the close of bar 1, has been filled by the second iterate.
C23_Witness ==
    /\ call.op = "iterate"
    /\ iteration = 2
    /\ \E k \in 1 .. Len(call.copy) :
          LET order == call.copy[k]
          IN  /\ order.type \in StopTypes
              /\ order.side = "BUY"
              /\ admitted_at[order.id] = 1
              /\ EventsOf(events, "OrderFilled", order.id) # {}
====
